---- MODULE Spec2Model ----
(***************************************************************************)
(* A model of th_dnh_archiver: the format detector, the two archive        *)
(* parsers, the bounded transfer and the output tree.                      *)
(*                                                                         *)
(* Text is a sequence of Unicode code points (so 'a' is 97, '_' is 95),    *)
(* a file is a sequence of bytes, and a path is a sequence of names below  *)
(* the directory that holds the archive.                                   *)
(***************************************************************************)
EXTENDS Integers, Sequences, FiniteSets, TLC

VARIABLES
    san_in,         \* validate_filename: the argument
    san_out,        \* validate_filename: the returned string
    san_pc,         \* "call" before the call, "done" after it, "off" when unused
    nodes,          \* Output.root: the OutputDirNode of each chain of original
                    \* directory names, <<>> being the root node
    written_files,  \* Output.written_files
    dirs,           \* the disk: the directories that exist
    files,          \* the disk: the content of each file that exists
    open_files,     \* the disk: the files a write handle is open on
    stderr,         \* the warnings printed so far
    t_pc,           \* transfer: "idle", "loop", "probe", "done"
    t_in,           \* transfer: the bytes its reader yields in all, and whether
                    \* the reader fails once they are read (as handed in)
    t_size,         \* transfer: size
    t_read,         \* transfer: what is left of the reader
    t_buffer,       \* transfer: buffer
    t_remaining,    \* transfer: remaining
    t_sink,         \* transfer: the path its sink was created at
    t_reads,        \* transfer: the read calls made so far
    t_result,       \* transfer: "none" while it runs, then "ok" or "err"
    file,           \* the archive: its bytes
    pos,            \* the archive: the read position of its handle
    det_hist,       \* determine_archive_type: per call made, the position it
                    \* started from, the I/O faults it met and its result
    run_log,        \* Output::for_path: per call made, the root it chose and
                    \* the disk as it was before the call
    p_build,        \* the build that runs: "debug" (overflow checks) or "release"
    p_pc,           \* extract_012m / extract_ph3: "open", "table", "entries",
                    \* "transfer", "done" ("off" when unused)
    p_count,        \* file_count
    p_entries,      \* the entries read so far from the table or the header
    p_idx,          \* the entries extracted so far
    p_hdr,          \* extract_ph3_inner: header_stream
    p_start,        \* the position the payload of the entry at hand is read from
    p_limit,        \* the limit of the Take the entry at hand is read through
    p_result        \* "none" while the parser runs, then "ok", "err" (an Err
                    \* returned) or "panic"

sanVars == <<san_in, san_out, san_pc>>
outVars == <<nodes, written_files, dirs, files, open_files, stderr>>
xferVars == <<t_pc, t_in, t_size, t_read, t_buffer, t_remaining, t_sink,
              t_reads, t_result>>

fileVars == <<file, pos>>

parseVars == <<p_build, p_pc, p_count, p_entries, p_idx, p_hdr, p_start,
               p_limit, p_result>>

vars == <<sanVars, outVars, xferVars, fileVars, det_hist, run_log, parseVars>>

\* What each specification leaves alone.
idleInSanitize == <<outVars, xferVars, fileVars, det_hist, run_log, parseVars>>
idleInTree == <<sanVars, xferVars, fileVars, det_hist, run_log, parseVars>>
idleInTransfer == <<sanVars, fileVars, det_hist, run_log, parseVars>>
idleInDetect == <<sanVars, outVars, xferVars, run_log, parseVars>>
idleInRoot == <<sanVars, fileVars, det_hist, parseVars>>
idleInParse == <<sanVars, det_hist, run_log>>

(***************************************************************************)
(* Bounds of the model.                                                    *)
(***************************************************************************)
\* Longest name handed to validate_filename in SpecSanitize.
MaxNameLen == 4
\* Output::create calls of one run in SpecTree.
MaxCreates == 3
\* The length of transfer's buffer, which is 64 KiB in the program
\* (archive.rs:46); the model keeps it short so that a source spans several
\* reads.
BufSize == 2
\* determine_archive_type calls on one source in SpecDetect.
MaxDetects == 2
\* Output::for_path calls (runs on the same archive) in SpecRoot, and the
\* candidates of the root that may exist before the first.
MaxRuns == 2
MaxPrior == 3
\* Entries of an archive in Spec012m and SpecPh3.
MaxEntries == 2
\* Longest source and largest expected size handed to transfer in
\* SpecTransfer.
MaxSrcLen == 4
MaxSize == 4

(***************************************************************************)
(* Text helpers (the std library calls the code makes).                    *)
(***************************************************************************)
Min(a, b) == IF a < b THEN a ELSE b

\* char::is_whitespace, which str::trim uses: the White_Space code points.
IsWhitespace(c) ==
    \/ c \in 9..13
    \/ c \in {32, 133, 160, 5760, 8232, 8233, 8239, 8287, 12288}
    \/ c \in 8192..8202

RECURSIVE TrimStart(_)
TrimStart(s) ==
    IF s # <<>> /\ IsWhitespace(Head(s)) THEN TrimStart(Tail(s)) ELSE s

RECURSIVE TrimEnd(_)
TrimEnd(s) ==
    IF s # <<>> /\ IsWhitespace(s[Len(s)])
    THEN TrimEnd(SubSeq(s, 1, Len(s) - 1))
    ELSE s

\* str::trim
Trim(s) == TrimEnd(TrimStart(s))

\* str::trim_right_matches('.')
RECURSIVE TrimRightDots(_)
TrimRightDots(s) ==
    IF s # <<>> /\ s[Len(s)] = 46
    THEN TrimRightDots(SubSeq(s, 1, Len(s) - 1))
    ELSE s

\* str::to_ascii_uppercase
ToAsciiUppercase(s) ==
    [i \in 1..Len(s) |-> IF s[i] \in 97..122 THEN s[i] - 32 ELSE s[i]]

\* format!("{}", n) of an unsigned number: its decimal digits.
RECURSIVE Digits(_)
Digits(n) ==
    IF n < 10 THEN <<48 + n>> ELSE Digits(n \div 10) \o <<48 + (n % 10)>>

(***************************************************************************)
(* validate_filename                                                       *)
(***************************************************************************)
\* < > : " / \ | ? *
ForbiddenChars == {60, 62, 58, 34, 47, 92, 124, 63, 42}

\* The match of validate_filename's loop body on one char.
SanitizeChar(c) ==
    IF c \in ForbiddenChars THEN 95
    ELSE IF c \in 0..31 THEN 95
    ELSE c

\* ".", "..", CON, PRN, AUX, NUL, COM1..COM9, LPT1..LPT8
INVALID_NAMES ==
    {<<46>>, <<46, 46>>,
     <<67, 79, 78>>, <<80, 82, 78>>, <<65, 85, 88>>, <<78, 85, 76>>}
    \cup {<<67, 79, 77, 48 + n>> : n \in 1..9}
    \cup {<<76, 80, 84, 48 + n>> : n \in 1..8}

\* "no_name"
NoName == <<110, 111, 95, 110, 97, 109, 101>>

\* The loop of validate_filename over the chars of the trimmed name.
SanitizeChars(trimmed) ==
    [i \in 1..Len(trimmed) |-> SanitizeChar(trimmed[i])]

\* The two ifs that end validate_filename, new_name being the loop's result.
EscapeName(name, new_name) ==
    IF ToAsciiUppercase(name) \in INVALID_NAMES
    THEN new_name \o <<95>>
    ELSE IF new_name = <<>> THEN NoName
    ELSE new_name

validate_filename(name) ==
    EscapeName(name, SanitizeChars(TrimRightDots(Trim(name))))

(***************************************************************************)
(* The output tree (output.rs).  The operators below take and return the   *)
(* state of the Output and of the disk as one record st, with the fields   *)
(* nodes, written_files, dirs, files, open_files and stderr.               *)
(***************************************************************************)
\* create_dir_all(path): the directory and every missing parent.
CreateDirAll(path) == {SubSeq(path, 1, k) : k \in 1..Len(path)}

\* str::split('/') of path, cur being the component read so far.
RECURSIVE SplitSlash(_, _)
SplitSlash(path, cur) ==
    IF path = <<>> THEN <<cur>>
    ELSE IF Head(path) = 47 THEN <<cur>> \o SplitSlash(Tail(path), <<>>)
    ELSE SplitSlash(Tail(path), Append(cur, Head(path)))

NonBlank(component) == Trim(component) # <<>>

\* str::replace('\\', "/")
ReplaceBackslash(path) ==
    [i \in 1..Len(path) |-> IF path[i] = 92 THEN 47 ELSE path[i]]

normalize_path(path) ==
    SelectSeq(SplitSlash(ReplaceBackslash(path), <<>>), NonBlank)

\* OutputDirNode::new.  log is the node's history: the original and the
\* emitted name of each uniq_name call made on it, in call order.
OutputDirNode_new(base_path) ==
    [base_path |-> base_path, encountered_names |-> {}, written_names |-> {},
     log |-> <<>>]

\* SuffixLoop without its test: the first suffix is taken as it is.
SuffixLoop_NoTest(written_names, name, suffix_count) ==
    name \o <<95>> \o Digits(suffix_count)

\* The while loop of uniq_name, entered with suffix_count.
RECURSIVE SuffixLoop(_, _, _)
SuffixLoop(written_names, name, suffix_count) ==
    LET final_name == name \o <<95>> \o Digits(suffix_count)
    IN  IF final_name \in written_names
        THEN SuffixLoop(written_names, name, suffix_count + 1)
        ELSE final_name

Warning(kind, entry) == [kind |-> kind, entry |-> entry]

\* The end of uniq_name: the warnings, the two sets and the result, valid
\* being validate_filename's result and name the name chosen.
UniqNameEmit(st, key, original_path, original_name, valid, name) ==
    [st |-> [st EXCEPT
                !.dirs = @ \cup CreateDirAll(st.nodes[key].base_path),
                !.stderr =
                    @ \o (IF original_name \in st.nodes[key].encountered_names
                          THEN <<Warning("duplicate", original_path)>> ELSE <<>>)
                      \o (IF valid # original_name
                          THEN <<Warning("invalid", original_path)>> ELSE <<>>)
                      \o (IF name # original_name
                          THEN <<Warning("outputting", original_path)>> ELSE <<>>),
                !.nodes[key].encountered_names = @ \cup {original_name},
                !.nodes[key].written_names = @ \cup {name},
                !.nodes[key].log =
                    Append(@, [orig |-> original_name, name |-> name])],
     name |-> name]

\* The name uniq_name settles on for the validated name.
UniqNameChoice(written_names, valid) ==
    IF valid \in written_names THEN SuffixLoop(written_names, valid, 2) ELSE valid

UniqNameFrom(st, key, original_path, original_name, valid) ==
    UniqNameEmit(st, key, original_path, original_name, valid,
                 UniqNameChoice(st.nodes[key].written_names, valid))

\* OutputDirNode::uniq_name on the node at key: [st, name].
uniq_name(st, key, original_path, original_name) ==
    UniqNameFrom(st, key, original_path, original_name,
                 validate_filename(original_name))

\* The else branch of write_dir, u being uniq_name's result, path the new
\* directory and sub the key of its node.
WriteDirNew(u, path, sub) ==
    [st |-> [u.st EXCEPT
                !.dirs = @ \cup CreateDirAll(path),
                !.nodes = (sub :> OutputDirNode_new(path)) @@ @],
     key |-> sub]

WriteDirNamed(u, base_path, sub) ==
    WriteDirNew(u, Append(base_path, u.name), sub)

\* OutputDirNode::write_dir on the node at key: [st, key], key being the
\* subdirectory's node.
write_dir(st, key, original_path, original_name) ==
    IF Append(key, original_name) \in DOMAIN st.nodes
    THEN [st |-> st, key |-> Append(key, original_name)]
    ELSE WriteDirNamed(uniq_name(st, key, original_path, original_name),
                       st.nodes[key].base_path, Append(key, original_name))

\* File::create(path) and the BufWriter on it, u being uniq_name's result.
WriteFileAt(u, path) ==
    [st |-> [u.st EXCEPT
                !.files = (path :> <<>>) @@ @,
                !.open_files = @ \cup {path}],
     path |-> path]

WriteFileNamed(u, base_path) == WriteFileAt(u, Append(base_path, u.name))

\* OutputDirNode::write_file on the node at key: [st, path], the file being
\* created (or truncated) and open for writing at path.
write_file(st, key, original_path, original_name) ==
    WriteFileNamed(uniq_name(st, key, original_path, original_name),
                   st.nodes[key].base_path)

\* One turn of the second loop of Output::create, w being write_dir's result.
RECURSIVE WalkDirs(_, _, _, _)
WalkNext(w, components, original_path) ==
    WalkDirs(w.st, w.key, components, original_path)

\* The second loop of Output::create: write_dir along the components.
WalkDirs(st, key, components, original_path) ==
    IF components = <<>> THEN [st |-> st, key |-> key]
    ELSE WalkNext(write_dir(st, key, original_path, Head(components)),
                  Tail(components), original_path)

\* The first loop of Output::create: "{}/" per component, then the name.
RECURSIVE OriginalPath(_, _)
OriginalPath(components, name) ==
    IF components = <<>> THEN name
    ELSE Head(components) \o <<47>> \o OriginalPath(Tail(components), name)

\* The end of Output::create, out being write_file's result.
CreateCount(out) ==
    [st |-> [out.st EXCEPT !.written_files = @ + 1], path |-> out.path]

CreateLeaf(w, original_path, name) ==
    CreateCount(write_file(w.st, w.key, original_path, name))

CreateWalk(st, split, original_path, name) ==
    CreateLeaf(WalkDirs(st, <<>>, split, original_path), original_path, name)

CreateSplit(st, split, name) ==
    CreateWalk(st, split, OriginalPath(split, name), name)

\* Output::create: [st, path].
Output_create(st, dir, name) == CreateSplit(st, normalize_path(dir), name)

\* The Output and the disk as the record the operators above work on.
OutState ==
    [nodes |-> nodes, written_files |-> written_files, dirs |-> dirs,
     files |-> files, open_files |-> open_files, stderr |-> stderr]

SetOutState(st) ==
    /\ nodes' = st.nodes
    /\ written_files' = st.written_files
    /\ dirs' = st.dirs
    /\ files' = st.files
    /\ open_files' = st.open_files
    /\ stderr' = st.stderr

\* "a_extracted": the root the runs of SpecTree and SpecTransfer write to.
RootName == <<97, 95, 101, 120, 116, 114, 97, 99, 116, 101, 100>>

\* The Output that Output::for_path returns, the root directory made.
OutFresh(root) ==
    /\ nodes = (<<>> :> OutputDirNode_new(<<root>>))
    /\ written_files = 0
    /\ dirs = {<<root>>}
    /\ files = <<>>
    /\ open_files = {}
    /\ stderr = <<>>

(***************************************************************************)
(* transfer (archive.rs).  A reader is [data, fail]: the bytes it still    *)
(* yields, and whether it returns an I/O error once they are read (a       *)
(* failing device, a corrupt compressed stream) instead of end-of-stream.  *)
(***************************************************************************)
Reader(data, fail) == [data |-> data, fail |-> fail]

\* Read::read into a buffer of length len: each result the reader may give,
\* [err, n, rest].  A reader with data left returns at least one byte and at
\* most len; how many is up to the reader.
ReadResults(reader, len) ==
    IF reader.data = <<>>
    THEN {[err |-> reader.fail, n |-> 0, rest |-> reader]}
    ELSE {[err |-> FALSE, n |-> k,
           rest |-> [reader EXCEPT !.data = SubSeq(@, k + 1, Len(@))]] :
          k \in 1..Min(len, Len(reader.data))}

\* buffer after a read of n bytes of data into its start.
Filled(buffer, data, n) ==
    [i \in 1..Len(buffer) |-> IF i <= n THEN data[i] ELSE buffer[i]]

\* WrittenSlice with the test on read_bytes left out: buffer[..remaining]
\* whatever was read.
WrittenSlice_NoTest(buffer, read_bytes, remaining) ==
    SubSeq(buffer, 1, Min(remaining, Len(buffer)))

\* The bytes one turn of the loop writes to the sink.
WrittenSlice(buffer, read_bytes, remaining) ==
    IF read_bytes > remaining
    THEN SubSeq(buffer, 1, remaining)
    ELSE SubSeq(buffer, 1, read_bytes)

\* remaining after one turn of the loop.
RemainingAfter(read_bytes, remaining) ==
    IF read_bytes > remaining THEN 0 ELSE remaining - read_bytes

\* transfer returns: its sink is dropped, which closes the file.
TransferReturn(result) ==
    /\ t_pc' = "done"
    /\ t_result' = result
    /\ open_files' = open_files \ {t_sink}

\* The call of transfer up to its loop: the sink is created.
TransferCall(dir, name, read, size) ==
    /\ t_pc = "idle"
    /\ \E c \in {Output_create(OutState, dir, name)} :
           /\ SetOutState(c.st)
           /\ t_sink' = c.path
    /\ t_in' = read
    /\ t_read' = read
    /\ t_size' = size
    /\ t_remaining' = size
    /\ t_buffer' = [i \in 1..BufSize |-> 0]
    /\ t_reads' = 0
    /\ t_result' = "none"
    /\ t_pc' = IF size > 0 THEN "loop" ELSE "probe"

\* One turn of the while loop.
TransferLoop ==
    /\ t_pc = "loop"
    /\ t_remaining > 0
    /\ \E r \in ReadResults(t_read, BufSize) :
        /\ t_reads' = t_reads + 1
        /\ t_read' = r.rest
        /\ IF r.err
           THEN /\ TransferReturn("err")
                /\ UNCHANGED <<t_buffer, t_remaining, files, stderr>>
           ELSE IF r.n = 0
           THEN /\ stderr' = Append(stderr, Warning("premature", t_sink))
                /\ t_pc' = "probe"
                /\ UNCHANGED <<t_buffer, t_remaining, t_result, files, open_files>>
           ELSE /\ t_buffer' = Filled(t_buffer, t_read.data, r.n)
                /\ files' = [files EXCEPT ![t_sink] =
                                @ \o WrittenSlice(t_buffer', r.n, t_remaining)]
                /\ t_remaining' = RemainingAfter(r.n, t_remaining)
                /\ t_pc' = IF t_remaining' > 0 THEN "loop" ELSE "probe"
                /\ UNCHANGED <<t_result, open_files, stderr>>
    /\ UNCHANGED <<t_in, t_size, t_sink, nodes, written_files, dirs>>

\* The probe read after the loop, and the return.
TransferProbe ==
    /\ t_pc = "probe"
    /\ \E r \in ReadResults(t_read, 1) :
        /\ t_reads' = t_reads + 1
        /\ t_read' = r.rest
        /\ IF r.err
           THEN /\ TransferReturn("err")
                /\ UNCHANGED <<t_buffer, stderr>>
           ELSE /\ TransferReturn("ok")
                /\ t_buffer' = Filled(t_buffer, t_read.data, r.n)
                /\ stderr' = IF r.n = 0 THEN stderr
                             ELSE Append(stderr, Warning("more data", t_sink))
    /\ UNCHANGED <<t_in, t_size, t_remaining, t_sink, nodes, written_files,
                   dirs, files>>

XferOff ==
    /\ t_pc = "idle"
    /\ t_in = Reader(<<>>, FALSE)
    /\ t_read = Reader(<<>>, FALSE)
    /\ t_size = 0
    /\ t_remaining = 0
    /\ t_buffer = <<>>
    /\ t_sink = <<>>
    /\ t_reads = 0
    /\ t_result = "none"

(***************************************************************************)
(* The archive's handle and the format detector (archive.rs).              *)
(***************************************************************************)
\* "PACK_FILE\0"
ARCHIVE_012M_MAGIC == <<80, 65, 67, 75, 95, 70, 73, 76, 69, 0>>
\* "ArchiveFile"
ARCHIVE_PH3_MAGIC == <<65, 114, 99, 104, 105, 118, 101, 70, 105, 108, 101>>
\* "COMPRESS_ZIP\0"
COMPRESS_ZIP_MAGIC == <<67, 79, 77, 80, 82, 69, 83, 83, 95, 90, 73, 80, 0>>

\* The faults a check of the header may meet: its seek or its read fails.
IoFaults == {"none", "seek", "read"}

\* Read::read_exact of n bytes of f at position p: [err, bytes, pos].  A
\* source that ends before n bytes are read gives an error, the position at
\* its end.
ReadExact(f, p, n, fault) ==
    IF fault THEN [err |-> TRUE, bytes |-> <<>>, pos |-> p]
    ELSE IF p + n > Len(f)
    THEN [err |-> TRUE, bytes |-> <<>>, pos |-> IF p > Len(f) THEN p ELSE Len(f)]
    ELSE [err |-> FALSE, bytes |-> SubSeq(f, p + 1, p + n), pos |-> p + n]

\* The Result<bool> of a header check, r being read_exact's result:
\* [err, val, pos].
HeaderResult(r, header) ==
    [err |-> r.err, val |-> ~r.err /\ r.bytes = header, pos |-> r.pos]

check_archive_header_no_seek(f, p, header, fault) ==
    HeaderResult(ReadExact(f, p, Len(header), fault = "read"), header)

\* check_archive_header without its seek: the header is read where the
\* handle stands.
check_archive_header_NoRewind(f, p, header, fault) ==
    IF fault = "seek" THEN [err |-> TRUE, val |-> FALSE, pos |-> p]
    ELSE check_archive_header_no_seek(f, p, header, fault)

check_archive_header(f, p, header, fault) ==
    IF fault = "seek" THEN [err |-> TRUE, val |-> FALSE, pos |-> p]
    ELSE check_archive_header_no_seek(f, 0, header, fault)

\* Result::unwrap_or(false)
UnwrapOrFalse(r) == IF r.err THEN FALSE ELSE r.val

\* The else-if of determine_archive_type, second being the second check.
SecondCheck(second) ==
    [type |-> IF UnwrapOrFalse(second) THEN "Archive_Ph3" ELSE "NotAnArchive",
     pos |-> second.pos]

\* The if of determine_archive_type, first being the first check.
FirstCheck(f, first, fault2) ==
    IF UnwrapOrFalse(first)
    THEN [type |-> "Archive_012M", pos |-> first.pos]
    ELSE SecondCheck(check_archive_header(f, first.pos, ARCHIVE_PH3_MAGIC, fault2))

\* determine_archive_type: [type, pos].
determine_archive_type(f, p, fault1, fault2) ==
    FirstCheck(f, check_archive_header(f, p, ARCHIVE_012M_MAGIC, fault1), fault2)

\* A call of determine_archive_type on the archive's handle.
DetermineArchiveType ==
    /\ Len(det_hist) < MaxDetects
    /\ \E fault1, fault2 \in IoFaults :
        \E d \in {determine_archive_type(file, pos, fault1, fault2)} :
            /\ det_hist' = Append(det_hist,
                                  [from |-> pos, fault1 |-> fault1,
                                   fault2 |-> fault2, type |-> d.type])
            /\ pos' = d.pos
    /\ UNCHANGED file

FileOff == file = <<>> /\ pos = 0
DetOff == det_hist = <<>>

(***************************************************************************)
(* Output::for_path (output.rs).  The archive is a.dat, so its stem is a.  *)
(***************************************************************************)
\* "a": Path::file_stem of the archive's path.
Stem == <<97>>

\* "_extracted"
ExtractedSuffix == <<95, 101, 120, 116, 114, 97, 99, 116, 101, 100>>

\* file_name after the pushes of one turn of for_path's loop.
CandidateName(base_file_name, suffix_count) ==
    IF suffix_count = 1
    THEN base_file_name \o ExtractedSuffix
    ELSE base_file_name \o ExtractedSuffix \o <<95>> \o Digits(suffix_count)

\* Path::exists
Exists(ds, fs, path) == path \in ds \/ path \in DOMAIN fs

\* for_path's loop without its test: the first candidate is taken.
RECURSIVE ForPathLoop(_, _, _, _)
ForPathLoop_NoTest(ds, fs, base_file_name, suffix_count) ==
    CandidateName(base_file_name, suffix_count)

\* The loop of Output::for_path, entered with suffix_count: the file name of
\* the root it settles on.
ForPathLoop(ds, fs, base_file_name, suffix_count) ==
    IF ~Exists(ds, fs, <<CandidateName(base_file_name, suffix_count)>>)
    THEN CandidateName(base_file_name, suffix_count)
    ELSE ForPathLoop(ds, fs, base_file_name, suffix_count + 1)

\* Output::for_path at the start of a run: the root is chosen and made, and
\* the run's Output is new.
ForPath ==
    /\ Len(run_log) < MaxRuns
    /\ t_pc \in {"idle", "done"}
    /\ \E root \in {ForPathLoop(dirs, files, Stem, 1)} :
        /\ run_log' = Append(run_log,
                             [root |-> root, dirs |-> dirs, files |-> files])
        /\ dirs' = dirs \cup CreateDirAll(<<root>>)
        /\ nodes' = (<<>> :> OutputDirNode_new(<<root>>))
    /\ written_files' = 0
    /\ t_pc' = "idle"
    /\ UNCHANGED <<files, open_files, stderr, t_in, t_size, t_read, t_buffer,
                   t_remaining, t_sink, t_reads, t_result>>

RootOff == run_log = <<>>

(***************************************************************************)
(* Reading the archive (archive.rs): integers, names, compressed streams.  *)
(***************************************************************************)
\* The four bytes of a u32, little-endian.
LE32(n) ==
    <<n % 256, (n \div 256) % 256, (n \div 65536) % 256, (n \div 16777216) % 256>>

\* The two bytes of a u16, little-endian.
LE16(n) == <<n % 256, (n \div 256) % 256>>

\* The u16 values of an even number of bytes, little-endian.
RECURSIVE Units(_)
Units(bytes) ==
    IF Len(bytes) < 2 THEN <<>>
    ELSE <<bytes[1] + 256 * bytes[2]>> \o Units(SubSeq(bytes, 3, Len(bytes)))

\* The Result of read_u32::<LE>, r being read_exact's result of 4 bytes:
\* [err, val, pos].
U32Result(r) ==
    [err |-> r.err,
     val |-> IF r.err THEN 0
             ELSE r.bytes[1] + 256 * r.bytes[2] + 65536 * r.bytes[3]
                  + 16777216 * r.bytes[4],
     pos |-> r.pos]

read_u32(f, p) == U32Result(ReadExact(f, p, 4, FALSE))

\* The bytes read_cstr keeps: those before the first zero byte.
RECURSIVE BeforeZero(_)
BeforeZero(bytes) ==
    IF bytes = <<>> \/ Head(bytes) = 0 THEN <<>>
    ELSE <<Head(bytes)>> \o BeforeZero(Tail(bytes))

\* from_utf8 of the kept bytes.  The names of the model's archives are ASCII,
\* which decodes to the code points of the same values.
FromUtf8(bytes) == bytes

\* The loop and the match of read_cstr, r being the size bytes read.
CstrResult(r) ==
    [err |-> r.err,
     val |-> IF r.err THEN <<>> ELSE FromUtf8(BeforeZero(r.bytes)),
     pos |-> r.pos]

\* The bytes of read_cstr after its size.
CstrBody(f, size) ==
    IF size.err THEN [err |-> TRUE, val |-> <<>>, pos |-> size.pos]
    ELSE CstrResult(ReadExact(f, size.pos, size.val, FALSE))

\* read_cstr: [err, val, pos].
read_cstr(f, p) == CstrBody(f, read_u32(f, p))

\* u64 subtraction a - b as the release build computes it, wrapping:
\* [overflow, val], the difference being val, or 2^64 - val on overflow.
WrappingSub(a, b) ==
    IF a >= b THEN [overflow |-> FALSE, val |-> a - b]
    ELSE [overflow |-> TRUE, val |-> b - a]

NoLimit == [overflow |-> FALSE, val |-> 0]

ExactLimit(n) == [overflow |-> FALSE, val |-> n]

\* The bytes Read::take(limit) yields of f from position p on.  A limit that
\* wrapped is 2^64 less a few bytes, which no file reaches.
Take(f, p, limit) ==
    IF p >= Len(f) THEN <<>>
    ELSE IF limit.overflow THEN SubSeq(f, p + 1, Len(f))
    ELSE SubSeq(f, p + 1, Min(p + limit.val, Len(f)))

\* zlib streams and what they inflate to: "ab" and the empty stream.
ZlibVectors ==
    {[z |-> <<120, 156, 75, 76, 2, 0, 1, 38, 0, 196>>, data |-> <<97, 98>>],
     [z |-> <<120, 156, 3, 0, 0, 0, 0, 1>>, data |-> <<>>]}

\* The header test of ZlibDecoder::new: method 8 (deflate), a window of at
\* most 32 KiB, no preset dictionary, and the check bits.
ZlibHeaderOk(bytes) ==
    /\ Len(bytes) >= 2
    /\ bytes[1] % 16 = 8
    /\ bytes[1] \div 16 <= 7
    /\ (bytes[2] \div 32) % 2 = 0
    /\ (256 * bytes[1] + bytes[2]) % 31 = 0

IsPrefix(a, b) == Len(a) <= Len(b) /\ SubSeq(b, 1, Len(a)) = a

\* The two bytes of a u16, big-endian.
BE16(n) == <<(n \div 256) % 256, n % 256>>

\* The sum of weight(i) * data[i] over i in lo..hi, weight(i) being 1 or,
\* weighted, the number of bytes from the i-th on.
RECURSIVE ByteSum(_, _, _, _)
ByteSum(data, lo, hi, weighted) ==
    IF lo > hi THEN 0
    ELSE IF lo = hi
    THEN (IF weighted THEN Len(data) - lo + 1 ELSE 1) * data[lo]
    ELSE ByteSum(data, lo, (lo + hi) \div 2, weighted)
         + ByteSum(data, (lo + hi) \div 2 + 1, hi, weighted)

\* The two halves of the Adler-32 checksum of data: a is 1 plus the bytes,
\* b the sum of the values a takes byte after byte, both modulo 65521.
AdlerA(data) == (1 + ByteSum(data, 1, Len(data), FALSE)) % 65521

AdlerB(data) == (Len(data) + ByteSum(data, 1, Len(data), TRUE)) % 65521

Adler32(data) == BE16(AdlerB(data)) \o BE16(AdlerA(data))

\* The zlib stream that holds data in one stored block.
Stored(data) ==
    <<120, 1, 1>> \o LE16(Len(data)) \o LE16(65535 - Len(data)) \o data
    \o Adler32(data)

\* bytes start with a zlib stream of one final stored block, whole up to
\* its data.
IsStored(bytes) ==
    /\ Len(bytes) >= 7
    /\ bytes[3] = 1
    /\ bytes[6] = 255 - bytes[4]
    /\ bytes[7] = 255 - bytes[5]
    /\ Len(bytes) >= 7 + bytes[4] + 256 * bytes[5]

StoredData(bytes) == SubSeq(bytes, 8, 7 + bytes[4] + 256 * bytes[5])

\* The reader a ZlibDecoder over bytes (whose header is in order) is: the
\* data of the stream the bytes start with, then the end or, the checksum
\* being wrong or missing, an error; a reader that fails when the stream
\* is cut short or corrupt.
Inflate(bytes) ==
    IF \E v \in ZlibVectors : IsPrefix(v.z, bytes)
    THEN Reader((CHOOSE v \in ZlibVectors : IsPrefix(v.z, bytes)).data, FALSE)
    ELSE IF IsStored(bytes)
    THEN Reader(StoredData(bytes),
                ~IsPrefix(Stored(StoredData(bytes)), bytes))
    ELSE Reader(<<>>, TRUE)

(***************************************************************************)
(* extract_012m (archive.rs).  What an entry comes to before transfer is   *)
(* called is a plan: [outcome, read, size, start, limit].                  *)
(***************************************************************************)
Plan(outcome, read, size, start, limit) ==
    [outcome |-> outcome, read |-> read, size |-> size, start |-> start,
     limit |-> limit]

PlanErr(start, limit) == Plan("err", Reader(<<>>, FALSE), 0, start, limit)

PlanPanic(start, limit) == Plan("panic", Reader(<<>>, FALSE), 0, start, limit)

\* PlanRaw without its seek: the copy starts where the check of the inner
\* magic left the handle.
PlanRaw_NoSeek(f, offset, len) ==
    Plan("transfer",
         Reader(Take(f, offset + Len(COMPRESS_ZIP_MAGIC), ExactLimit(len)), FALSE),
         len, offset + Len(COMPRESS_ZIP_MAGIC), ExactLimit(len))

\* The else branch: the handle is set back to the offset and the entry
\* copied as it is.
PlanRaw(f, offset, len) ==
    Plan("transfer", Reader(Take(f, offset, ExactLimit(len)), FALSE), len,
         offset, ExactLimit(len))

\* ZlibDecoder::new(in_stream)? and the call of transfer on it.
PlanInflate(in_stream, size, start, limit) ==
    IF ZlibHeaderOk(in_stream)
    THEN Plan("transfer", Inflate(in_stream), size, start, limit)
    ELSE PlanErr(start, limit)

\* len - 4 - COMPRESS_ZIP_MAGIC.len(): with overflow checks (debug) an
\* overflow panics, without them (release) it wraps.
CompressedLen(build, len) ==
    [panic |-> build = "debug" /\ len < 4 + Len(COMPRESS_ZIP_MAGIC),
     limit |-> WrappingSub(len, 4 + Len(COMPRESS_ZIP_MAGIC))]

\* The then branch from compressed_len on, u being the uncompressed_len read.
PlanCompressed(f, build, len, u, c) ==
    IF u.err THEN PlanErr(u.pos, NoLimit)
    ELSE IF c.panic THEN PlanPanic(u.pos, c.limit)
    ELSE PlanInflate(Take(f, u.pos, c.limit), u.val, u.pos, c.limit)

\* The if of the second loop, marker being the check of the inner magic.
PlanMarker(f, build, entry, marker) ==
    IF UnwrapOrFalse(marker)
    THEN PlanCompressed(f, build, entry.len, read_u32(f, marker.pos),
                        CompressedLen(build, entry.len))
    ELSE PlanRaw(f, entry.offset, entry.len)

\* One turn of the second loop of extract_012m up to the call of transfer.
Plan012m(f, build, entry) ==
    PlanMarker(f, build, entry,
               check_archive_header_no_seek(f, entry.offset,
                                            COMPRESS_ZIP_MAGIC, "none"))

\* The parser returns (or panics): nothing of it runs any more.
ParserEnds(result) ==
    /\ p_pc' = "done"
    /\ p_result' = result

\* The start of extract_012m: the header is checked and file_count read.
Open012mCount(header, count) ==
    IF header.err \/ count.err
    THEN /\ ParserEnds("err")
         /\ UNCHANGED p_count
    ELSE IF ~header.val
    THEN /\ ParserEnds("panic")
         /\ UNCHANGED p_count
    ELSE /\ p_count' = count.val
         /\ p_pc' = IF count.val = 0 THEN "entries" ELSE "table"
         /\ UNCHANGED p_result

Open012mHeader(header) ==
    /\ Open012mCount(header, read_u32(file, header.pos))
    /\ pos' = IF header.err THEN header.pos ELSE read_u32(file, header.pos).pos

Open012m ==
    /\ p_pc = "open"
    /\ Open012mHeader(check_archive_header(file, pos, ARCHIVE_012M_MAGIC, "none"))
    /\ UNCHANGED <<file, p_build, p_entries, p_idx, p_hdr, p_start, p_limit,
                   outVars, xferVars>>

\* The three reads of one turn of the first loop: [err, entry, pos].
TableLen(name, offset, len) ==
    [err |-> len.err,
     entry |-> [name |-> name.val, offset |-> offset.val, len |-> len.val],
     pos |-> len.pos]

TableOffset(f, name, offset) ==
    IF offset.err
    THEN [err |-> TRUE, entry |-> [name |-> <<>>, offset |-> 0, len |-> 0],
          pos |-> offset.pos]
    ELSE TableLen(name, offset, read_u32(f, offset.pos))

TableName(f, name) ==
    IF name.err
    THEN [err |-> TRUE, entry |-> [name |-> <<>>, offset |-> 0, len |-> 0],
          pos |-> name.pos]
    ELSE TableOffset(f, name, read_u32(f, name.pos))

TableRecord(f, p) == TableName(f, read_cstr(f, p))

\* One turn of the first loop of extract_012m: a record of the table is
\* read; fault says that the device fails on it.
ReadTable012m ==
    /\ p_pc = "table"
    /\ \E fault \in BOOLEAN, r \in {TableRecord(file, pos)} :
        /\ pos' = r.pos
        /\ IF fault \/ r.err
           THEN /\ ParserEnds("err")
                /\ UNCHANGED p_entries
           ELSE /\ p_entries' = Append(p_entries, r.entry)
                /\ p_pc' = IF Len(p_entries) + 1 = p_count
                           THEN "entries" ELSE "table"
                /\ UNCHANGED p_result
    /\ UNCHANGED <<file, p_build, p_count, p_idx, p_hdr, p_start, p_limit,
                   outVars, xferVars>>

\* One turn of an extraction loop up to the loop of transfer, plan being
\* what the entry came to.
BeginEntry(dir, name, plan) ==
    /\ p_start' = plan.start
    /\ p_limit' = plan.limit
    /\ pos' = plan.start
    /\ IF plan.outcome = "transfer"
       THEN /\ TransferCall(dir, name, plan.read, plan.size)
            /\ p_pc' = "transfer"
            /\ UNCHANGED p_result
       ELSE /\ ParserEnds(plan.outcome)
            /\ UNCHANGED <<outVars, xferVars>>

\* One turn of the second loop of extract_012m up to the loop of transfer.
BeginEntry012m ==
    /\ p_pc = "entries"
    /\ p_idx < p_count
    /\ BeginEntry(<<>>, p_entries[p_idx + 1].name,
                  Plan012m(file, p_build, p_entries[p_idx + 1]))
    /\ UNCHANGED <<file, p_build, p_count, p_entries, p_idx, p_hdr>>

\* transfer has returned: its error is passed on by ?, or the loop goes on.
EndEntry ==
    /\ p_pc = "transfer"
    /\ t_pc = "done"
    /\ t_pc' = "idle"
    /\ IF t_result = "err"
       THEN /\ ParserEnds("err")
            /\ UNCHANGED p_idx
       ELSE /\ p_idx' = p_idx + 1
            /\ p_pc' = "entries"
            /\ UNCHANGED p_result
    /\ UNCHANGED <<fileVars, p_build, p_count, p_entries, p_hdr, p_start,
                   p_limit, outVars, t_in, t_size, t_read, t_buffer,
                   t_remaining, t_sink, t_reads, t_result>>

\* The loop is over: Ok(()).
ReturnOk ==
    /\ p_pc = "entries"
    /\ p_idx = p_count
    /\ ParserEnds("ok")
    /\ UNCHANGED <<fileVars, p_build, p_count, p_entries, p_idx, p_hdr,
                   p_start, p_limit, outVars, xferVars>>

(***************************************************************************)
(* extract_ph3 and extract_ph3_inner (archive.rs).                         *)
(***************************************************************************)
\* String::from_utf16 of the units.  The names of the model's archives are
\* ASCII, whose units are the code points themselves.
FromUtf16(units) == units

\* The loop and the match of read_wchar_str, r being the 2 * count bytes.
WcharResult(r) ==
    [err |-> r.err,
     val |-> IF r.err THEN <<>> ELSE FromUtf16(Units(r.bytes)),
     pos |-> r.pos]

WcharBody(h, count) ==
    IF count.err THEN [err |-> TRUE, val |-> <<>>, pos |-> count.pos]
    ELSE WcharResult(ReadExact(h, count.pos, 2 * count.val, FALSE))

\* read_wchar_str on the stream h at q: [err, val, pos].
read_wchar_str(h, q) == WcharBody(h, read_u32(h, q))

\* The header stream: the header itself or, compressed, what it inflates
\* to, with fail set when the decoder comes to fail.
HeaderStream(is_compressed, header) ==
    IF is_compressed
    THEN [bytes |-> Inflate(header).data, pos |-> 0, fail |-> Inflate(header).fail]
    ELSE [bytes |-> header, pos |-> 0, fail |-> FALSE]

\* extract_ph3 up to the loop of extract_ph3_inner.
OpenPh3 ==
    /\ p_pc = "open"
    /\ \E magic \in {check_archive_header(file, pos, ARCHIVE_PH3_MAGIC, "none")} :
       \E count \in {read_u32(file, magic.pos)} :
       \E is_compressed \in {ReadExact(file, count.pos, 1, FALSE)} :
       \E header_size \in {read_u32(file, is_compressed.pos)} :
       \E header \in {ReadExact(file, header_size.pos, header_size.val, FALSE)} :
        IF magic.err
        THEN ParserEnds("err") /\ pos' = magic.pos /\ UNCHANGED <<p_count, p_hdr>>
        ELSE IF ~magic.val
        THEN ParserEnds("panic") /\ pos' = magic.pos /\ UNCHANGED <<p_count, p_hdr>>
        ELSE IF count.err \/ is_compressed.err \/ header_size.err \/ header.err
        THEN ParserEnds("err") /\ pos' = header.pos /\ UNCHANGED <<p_count, p_hdr>>
        ELSE IF is_compressed.bytes[1] # 0 /\ ~ZlibHeaderOk(header.bytes)
        THEN ParserEnds("err") /\ pos' = header.pos /\ UNCHANGED <<p_count, p_hdr>>
        ELSE /\ p_count' = count.val
             /\ p_hdr' = HeaderStream(is_compressed.bytes[1] # 0, header.bytes)
             /\ pos' = header.pos
             /\ p_pc' = "entries"
             /\ UNCHANGED p_result
    /\ UNCHANGED <<file, p_build, p_entries, p_idx, p_start, p_limit, outVars,
                   xferVars>>

\* ContentsSeek with the offset counted from where the header block ends.
ContentsSeek_FromBase(base, offset) == base + offset

\* The position contents_stream.seek(SeekFrom::Start(offset)) comes to,
\* base being where the header block ends.  contents_stream is the handle of
\* the archive itself, whose position 0 is the first byte of the file.
ContentsSeek(base, offset) == offset

\* One turn of the loop of extract_ph3_inner from the seek to the call of
\* transfer, start being where the seek came to.
PlanPh3(f, entry, start) ==
    IF entry.is_compressed
    THEN PlanInflate(Take(f, start, ExactLimit(entry.compressed_len)),
                     entry.uncompressed_len, start,
                     ExactLimit(entry.compressed_len))
    ELSE PlanRaw(f, start, entry.uncompressed_len)

\* Where the header block ends: after the magic, file_count, the flag,
\* header_size and header_size bytes.
ContentsStart(f) ==
    Len(ARCHIVE_PH3_MAGIC) + 4 + 1 + 4
    + read_u32(f, Len(ARCHIVE_PH3_MAGIC) + 4 + 1).val

\* One turn of the loop of extract_ph3_inner up to the loop of transfer.
BeginEntryPh3 ==
    /\ p_pc = "entries"
    /\ p_idx < p_count
    /\ \E h \in {p_hdr.bytes} :
       \E entry_len \in {read_u32(h, p_hdr.pos)} :
       \E dir_name \in {read_wchar_str(h, entry_len.pos)} :
       \E entry_name \in {read_wchar_str(h, dir_name.pos)} :
       \E is_compressed \in {read_u32(h, entry_name.pos)} :
       \E uncompressed_len \in {read_u32(h, is_compressed.pos)} :
       \E compressed_len \in {read_u32(h, uncompressed_len.pos)} :
       \E offset \in {read_u32(h, compressed_len.pos)} :
        IF \/ entry_len.err \/ dir_name.err \/ entry_name.err
           \/ is_compressed.err \/ uncompressed_len.err
           \/ compressed_len.err \/ offset.err
        THEN /\ ParserEnds("err")
             /\ p_hdr' = [p_hdr EXCEPT !.pos = Len(h)]
             /\ UNCHANGED <<p_entries, p_start, p_limit, pos, outVars, xferVars>>
        ELSE \E entry \in {[dir |-> dir_name.val, name |-> entry_name.val,
                            is_compressed |-> is_compressed.val # 0,
                            uncompressed_len |-> uncompressed_len.val,
                            compressed_len |-> compressed_len.val,
                            offset |-> offset.val]} :
             /\ p_hdr' = [p_hdr EXCEPT !.pos = offset.pos]
             /\ p_entries' = Append(p_entries, entry)
             /\ BeginEntry(entry.dir, entry.name,
                           PlanPh3(file, entry,
                                   ContentsSeek(ContentsStart(file), entry.offset)))
    /\ UNCHANGED <<file, p_build, p_count, p_idx>>

\* The match of main on what extract came to: an Err is reported and the
\* process exits with 1; Ok and a caught panic both end in press_any_key.
MainOutcome(result) ==
    IF result = "err" THEN "after_error" ELSE "press_any_key"

ParseOff ==
    /\ p_build = "release"
    /\ p_pc = "off"
    /\ p_count = 0
    /\ p_entries = <<>>
    /\ p_idx = 0
    /\ p_hdr = [bytes |-> <<>>, pos |-> 0, fail |-> FALSE]
    /\ p_start = 0
    /\ p_limit = NoLimit
    /\ p_result = "none"

(***************************************************************************)
(* SpecSanitize: validate_filename applied to every short name over an     *)
(* alphabet that can spell CON in either case, whitespace, a period, a     *)
(* forbidden character and a control character.                            *)
(***************************************************************************)
\* C O N n space . < TAB
SanAlphabet == {67, 79, 78, 110, 32, 46, 60, 9}

SanNames == UNION {[1..n -> SanAlphabet] : n \in 0..MaxNameLen}

SanOff == san_in = <<>> /\ san_out = <<>> /\ san_pc = "off"

InitSanitize ==
    /\ san_in \in SanNames
    /\ san_out = <<>>
    /\ san_pc = "call"
    /\ OutFresh(RootName)
    /\ XferOff
    /\ FileOff
    /\ DetOff
    /\ RootOff
    /\ ParseOff

CallValidateFilename ==
    /\ san_pc = "call"
    /\ san_out' = validate_filename(san_in)
    /\ san_pc' = "done"
    /\ UNCHANGED <<san_in, idleInSanitize>>

NextSanitize == CallValidateFilename

SpecSanitize == InitSanitize /\ [][NextSanitize]_vars

\* C3: the string validate_filename returns is never, compared
\* case-insensitively, a reserved name (".", "..", CON, PRN, AUX, NUL,
\* COM1..COM9, LPT1..LPT8), also when the argument only becomes one by
\* trimming ("CON ", "con.").
C3_NeverReserved ==
    san_pc = "done" => ToAsciiUppercase(san_out) \notin INVALID_NAMES

\* C4: the string validate_filename returns is non-empty, neither starts nor
\* ends with a whitespace character, and does not end with a period, also
\* when whitespace and periods alternate at the end of the argument ("a .").
C4_TrimmedNonEmpty ==
    san_pc = "done" =>
        /\ san_out # <<>>
        /\ ~IsWhitespace(san_out[1])
        /\ ~IsWhitespace(san_out[Len(san_out)])
        /\ san_out[Len(san_out)] # 46

(***************************************************************************)
(* SpecTree: a run's Output::create calls, on directory paths and names    *)
(* that collide with each other.                                           *)
(***************************************************************************)
\* "", "a", "a\b/"
TreeDirs == {<<>>, <<97>>, <<97, 92, 98, 47>>}

\* "con", "a", "a ", "a_2"
TreeNames == {<<99, 111, 110>>, <<97>>, <<97, 32>>, <<97, 95, 50>>}

InitTree ==
    /\ OutFresh(RootName)
    /\ XferOff
    /\ SanOff
    /\ FileOff
    /\ DetOff
    /\ RootOff
    /\ ParseOff

\* A caller's Output::create(dir, name), the sink dropped unwritten.
CallCreate ==
    /\ written_files < MaxCreates
    /\ \E dir \in TreeDirs, name \in TreeNames :
        \E c \in {Output_create(OutState, dir, name)} :
            SetOutState([c.st EXCEPT !.open_files = @ \ {c.path}])
    /\ UNCHANGED idleInTree

NextTree == CallCreate

SpecTree == InitTree /\ [][NextTree]_vars

\* base_k: the name uniq_name's loop forms with suffix_count k.
Suffixed(base, k) == base \o <<95>> \o Digits(k)

\* How many of the first i uniq_name calls of log had the sanitized form base.
Rank(log, i, base) ==
    Cardinality({j \in 1..i : validate_filename(log[j].orig) = base})

\* The calls of log whose sanitized form is not base: the other entries.
Others(log, base) ==
    {j \in 1..Len(log) : validate_filename(log[j].orig) # base}

\* Whether another entry of log claims a base_k name, by its sanitized form
\* or by the name it was given.
ClaimsSuffixed(log, base) ==
    \E j \in Others(log, base), k \in 2..(Len(log) + 1) :
        \/ validate_filename(log[j].orig) = Suffixed(base, k)
        \/ log[j].name = Suffixed(base, k)

\* Whether another entry of log was given the name base itself.
ClaimsBase(log, base) == \E j \in Others(log, base) : log[j].name = base

\* The name the pattern base, base_2, base_3, .. gives the entry of that rank.
PatternName(base, rank) == IF rank = 1 THEN base ELSE Suffixed(base, rank)

\* Whether the i-th call of log got the name of the pattern.
FollowsPattern(log, i, base) ==
    log[i].name = PatternName(base, Rank(log, i, base))

\* Every Output::create made a file of its own, which is no directory, and
\* the names uniq_name emitted in a node are pairwise distinct.
DistinctNames ==
    /\ written_files = Cardinality(DOMAIN files)
    /\ DOMAIN files \cap dirs = {}
    /\ \A key \in DOMAIN nodes :
        \A i, j \in 1..Len(nodes[key].log) :
            i < j => nodes[key].log[i].name # nodes[key].log[j].name

\* C5 as claimed: in every directory node the names uniq_name emitted, for
\* files and subdirectories together, are pairwise distinct, and the entries
\* of a node with the same sanitized form base get base, base_2, base_3, ..
\* in call order when no other entry of the node claims a base_k name.
C5_AsClaimed ==
    /\ DistinctNames
    /\ \A key \in DOMAIN nodes :
        \A i \in 1..Len(nodes[key].log) :
            \E base \in {validate_filename(nodes[key].log[i].orig)} :
                ~ClaimsSuffixed(nodes[key].log, base) =>
                    FollowsPattern(nodes[key].log, i, base)

\* C5 as amended: in every directory node the names uniq_name emitted, for
\* files and subdirectories together, are pairwise distinct, and the entries
\* of a node with the same sanitized form base get base, base_2, base_3, ..
\* in call order when no other entry of the node claims a base_k name or was
\* given the name base itself.
C5_UniqueNames ==
    /\ DistinctNames
    /\ \A key \in DOMAIN nodes :
        \A i \in 1..Len(nodes[key].log) :
            \E base \in {validate_filename(nodes[key].log[i].orig)} :
                (~ClaimsSuffixed(nodes[key].log, base)
                    /\ ~ClaimsBase(nodes[key].log, base)) =>
                    FollowsPattern(nodes[key].log, i, base)

\* Three entries named "con" in the root: con_, con__2, con__3.
C5_Witness ==
    /\ Len(nodes[<<>>].log) = 3
    /\ \A i \in 1..3 : nodes[<<>>].log[i].orig = <<99, 111, 110>>
    /\ nodes[<<>>].log[1].name = <<99, 111, 110, 95>>
    /\ nodes[<<>>].log[2].name = <<99, 111, 110, 95, 95, 50>>
    /\ nodes[<<>>].log[3].name = <<99, 111, 110, 95, 95, 51>>

(***************************************************************************)
(* SpecTransfer: one transfer call, on every short source and every small  *)
(* expected size, the source splitting its data into reads as it likes.    *)
(***************************************************************************)
\* The bytes 1, 2, .., n: every byte of a source differs from the others.
Iota(n) == [i \in 1..n |-> i]

\* "f"
TransferName == <<102>>

InitTransfer ==
    /\ OutFresh(RootName)
    /\ XferOff
    /\ SanOff
    /\ FileOff
    /\ DetOff
    /\ RootOff
    /\ ParseOff

CallTransfer ==
    /\ \E n \in 0..MaxSrcLen, fail \in BOOLEAN, size \in 0..MaxSize :
        TransferCall(<<>>, TransferName, Reader(Iota(n), fail), size)
    /\ UNCHANGED idleInTransfer

NextTransfer ==
    \/ CallTransfer
    \/ TransferLoop /\ UNCHANGED idleInTransfer
    \/ TransferProbe /\ UNCHANGED idleInTransfer

SpecTransfer == InitTransfer /\ [][NextTransfer]_vars

\* The warnings of one kind printed so far.
Warnings(kind) == Cardinality({i \in 1..Len(stderr) : stderr[i].kind = kind})

\* C1: when the source yields more than size bytes in all, however it splits
\* them into reads, the sink receives exactly the first size bytes and the
\* "contains more data" warning is printed.
C1_LongSource ==
    (t_pc = "done" /\ ~t_in.fail /\ Len(t_in.data) > t_size) =>
        /\ files[t_sink] = SubSeq(t_in.data, 1, t_size)
        /\ Warnings("more data") >= 1

\* C2: when the source yields at most size bytes in all and no read fails,
\* transfer ends (every state before its return has a next step, and it makes
\* at most one read per source byte and two more), returns success with the
\* sink holding exactly the source's bytes in order, prints "ended
\* prematurely" once if the source is shorter than size and not at all if it
\* is as long, and never prints "contains more data".
C2_ShortSource ==
    (t_pc # "idle" /\ ~t_in.fail /\ Len(t_in.data) <= t_size) =>
        /\ t_reads <= Len(t_in.data) + 2
        /\ t_pc # "done" => ENABLED (TransferLoop \/ TransferProbe)
        /\ t_pc = "done" =>
            /\ t_result = "ok"
            /\ files[t_sink] = t_in.data
            /\ Warnings("premature") =
                   (IF Len(t_in.data) < t_size THEN 1 ELSE 0)
            /\ Warnings("more data") = 0
            /\ open_files = {}

\* A source of three bytes, read in more than one piece, against a size of
\* four: transfer has returned.
C2_Witness ==
    /\ t_pc = "done"
    /\ ~t_in.fail
    /\ Len(t_in.data) = 3
    /\ t_size = 4
    /\ t_reads >= 4
    /\ t_result = "ok"

(***************************************************************************)
(* SpecDetect: determine_archive_type called, up to MaxDetects times in a  *)
(* row, on sources around the two magics (their prefixes, each with one    *)
(* byte changed, each with data after it), the handle starting anywhere.   *)
(***************************************************************************)
Prefixes(magic) == {SubSeq(magic, 1, k) : k \in 0..Len(magic)}

Altered(magic) ==
    {[magic EXCEPT ![i] = (@ + 1) % 256] : i \in 1..Len(magic)}

Extended(magic) == {magic \o <<0>>, magic \o <<1, 0, 0, 0>>}

DetectFiles ==
    UNION {Prefixes(m) \cup Altered(m) \cup Extended(m) :
           m \in {ARCHIVE_012M_MAGIC, ARCHIVE_PH3_MAGIC}}

InitDetect ==
    /\ file \in DetectFiles
    /\ pos \in 0..(Len(file) + 1)
    /\ det_hist = <<>>
    /\ OutFresh(RootName)
    /\ XferOff
    /\ SanOff
    /\ RootOff
    /\ ParseOff

NextDetect == DetermineArchiveType /\ UNCHANGED idleInDetect

SpecDetect == InitDetect /\ [][NextDetect]_vars

\* Whether the first Len(magic) bytes of f are magic.
StartsWith(f, magic) ==
    Len(f) >= Len(magic) /\ SubSeq(f, 1, Len(magic)) = magic

\* C6: wherever the handle stood, the result is Archive_012M iff the first
\* 10 bytes are "PACK_FILE\0" (and that check met no I/O fault), Archive_Ph3
\* iff that check failed and the first 11 bytes are "ArchiveFile" (and that
\* check met no fault), and NotAnArchive otherwise, shorter sources and
\* failing seeks or reads included; calls in a row that meet no fault give
\* the same result.
C6_Classification ==
    /\ \A i \in 1..Len(det_hist) :
        det_hist[i].type =
            IF StartsWith(file, ARCHIVE_012M_MAGIC) /\ det_hist[i].fault1 = "none"
            THEN "Archive_012M"
            ELSE IF StartsWith(file, ARCHIVE_PH3_MAGIC)
                    /\ det_hist[i].fault2 = "none"
            THEN "Archive_Ph3"
            ELSE "NotAnArchive"
    /\ \A i, j \in 1..Len(det_hist) :
        (/\ det_hist[i].fault1 = "none" /\ det_hist[i].fault2 = "none"
         /\ det_hist[j].fault1 = "none" /\ det_hist[j].fault2 = "none")
        => det_hist[i].type = det_hist[j].type

\* Two calls in a row, the first with the handle past the start of a source
\* that holds more than the magic: both say Archive_Ph3.
C6_Witness ==
    /\ Len(det_hist) = 2
    /\ det_hist[1].from > 0
    /\ Len(file) > Len(ARCHIVE_PH3_MAGIC)
    /\ det_hist[1].type = "Archive_Ph3"
    /\ det_hist[2].type = "Archive_Ph3"

(***************************************************************************)
(* SpecRoot: runs on the same archive, one after the other, on a disk      *)
(* where candidates of the root exist already, as the directory of an      *)
(* earlier extraction (holding its file f) or as a plain file.  Each run   *)
(* extracts one entry f, its content the number of the run.                *)
(***************************************************************************)
\* "f"
EntryName == <<102>>

\* "a_extracted_1": a name that is no candidate of the loop.
DecoyName == Stem \o ExtractedSuffix \o <<95, 49>>

\* The disks before the first run: state[k] says what the k-th candidate is.
PriorDirs(state, decoy) ==
    {<<CandidateName(Stem, k)>> : k \in {k \in 1..MaxPrior : state[k] = "dir"}}
    \cup (IF decoy THEN {<<DecoyName>>} ELSE {})

PriorFiles(state) ==
    [path \in
        {<<CandidateName(Stem, k)>> : k \in {k \in 1..MaxPrior : state[k] = "file"}}
        \cup {<<CandidateName(Stem, k), EntryName>> :
              k \in {k \in 1..MaxPrior : state[k] = "dir"}}
     |-> <<0>>]

InitRoot ==
    /\ \E state \in [1..MaxPrior -> {"absent", "dir", "file"}],
          decoy \in BOOLEAN :
        /\ dirs = PriorDirs(state, decoy)
        /\ files = PriorFiles(state)
    /\ nodes = <<>>
    /\ written_files = 0
    /\ open_files = {}
    /\ stderr = <<>>
    /\ run_log = <<>>
    /\ XferOff
    /\ SanOff
    /\ FileOff
    /\ DetOff
    /\ ParseOff

\* The run extracts its entry.
RootTransfer ==
    /\ run_log # <<>>
    /\ written_files = 0
    /\ TransferCall(<<>>, EntryName, Reader(<<Len(run_log)>>, FALSE), 1)
    /\ UNCHANGED run_log

NextRoot ==
    \/ ForPath /\ UNCHANGED idleInRoot
    \/ RootTransfer /\ UNCHANGED idleInRoot
    \/ TransferLoop /\ UNCHANGED <<run_log, idleInRoot>>
    \/ TransferProbe /\ UNCHANGED <<run_log, idleInRoot>>

SpecRoot == InitRoot /\ [][NextRoot]_vars

\* C8: the root a call of Output::for_path chose did not exist before the
\* call and exists as a directory after it; it is the first candidate of
\* a_extracted, a_extracted_2, a_extracted_3, .. that did not exist; and no
\* file that was on the disk before the call has changed since, so no file
\* of an earlier extraction's output is overwritten.
C8_FreshRoot ==
    \A r \in 1..Len(run_log) :
        /\ ~Exists(run_log[r].dirs, run_log[r].files, <<run_log[r].root>>)
        /\ <<run_log[r].root>> \in dirs
        /\ \E k \in 1..(MaxPrior + MaxRuns) :
            /\ run_log[r].root = CandidateName(Stem, k)
            /\ \A j \in 1..(k - 1) :
                Exists(run_log[r].dirs, run_log[r].files,
                       <<CandidateName(Stem, j)>>)
        /\ \A path \in DOMAIN run_log[r].files :
            /\ path \in DOMAIN files
            /\ files[path] = run_log[r].files[path]

\* Two runs done on a disk where a_extracted held an earlier extraction and
\* a_extracted_2 was a file: the second run wrote to a_extracted_4.
C8_Witness ==
    /\ Len(run_log) = 2
    /\ t_pc = "done"
    /\ <<CandidateName(Stem, 1)>> \in run_log[1].dirs
    /\ <<CandidateName(Stem, 2)>> \in DOMAIN run_log[1].files
    /\ run_log[1].root = CandidateName(Stem, 3)
    /\ run_log[2].root = CandidateName(Stem, 4)
    /\ files[<<CandidateName(Stem, 4), EntryName>>] = <<2>>

(***************************************************************************)
(* Spec012m: extract_012m on archives of up to MaxEntries entries, each    *)
(* entry of one of the kinds below, the table whole or cut short, in a     *)
(* debug or a release build.                                               *)
(***************************************************************************)
\* "e1", "e2", ..: the name of the i-th entry.
NameOf(i) == <<101>> \o Digits(i)

EntryKinds == {"raw", "short", "zip", "ziplong", "zipbad", "under", "underbad"}

\* The bytes an entry of the kind has at its offset.
PayloadOf(kind) ==
    CASE kind = "raw" -> <<7, 8, 9>>
      [] kind = "short" -> <<7>>
      [] kind = "zip" ->
            COMPRESS_ZIP_MAGIC \o LE32(2) \o <<120, 156, 75, 76, 2, 0, 1, 38, 0, 196>>
      [] kind = "ziplong" ->
            COMPRESS_ZIP_MAGIC \o LE32(1) \o <<120, 156, 75, 76, 2, 0, 1, 38, 0, 196>>
      [] kind = "zipbad" -> COMPRESS_ZIP_MAGIC \o LE32(2) \o <<1, 2, 3>>
      [] kind = "under" ->
            COMPRESS_ZIP_MAGIC \o LE32(2) \o <<120, 156, 75, 76, 2, 0, 1, 38, 0, 196>>
      [] kind = "underbad" -> COMPRESS_ZIP_MAGIC \o LE32(2) \o <<1, 2, 3>>

\* The length the table declares for an entry of the kind.
DeclaredLen(kind) ==
    CASE kind = "short" -> 3
      [] kind = "under" -> 16
      [] kind = "underbad" -> 5
      [] OTHER -> Len(PayloadOf(kind))

\* The record of the table for the i-th entry.
RecordOf(i, offset, len) ==
    LE32(Len(NameOf(i)) + 1) \o NameOf(i) \o <<0>> \o LE32(offset) \o LE32(len)

RECURSIVE Table012m(_, _, _)
Table012m(kinds, i, offset) ==
    IF i > Len(kinds) THEN <<>>
    ELSE RecordOf(i, offset, DeclaredLen(kinds[i]))
         \o Table012m(kinds, i + 1, offset + Len(PayloadOf(kinds[i])))

RECURSIVE Payloads(_, _)
Payloads(kinds, i) ==
    IF i > Len(kinds) THEN <<>>
    ELSE PayloadOf(kinds[i]) \o Payloads(kinds, i + 1)

\* Where the payloads start: after the magic, the count and the table.
PayloadStart012m(n) ==
    Len(ARCHIVE_012M_MAGIC) + 4 + n * Len(RecordOf(1, 0, 0))

\* The archive with entries of these kinds; cut, its table lacks the last
\* two bytes and nothing follows.
Archive012m(kinds, cut) ==
    IF cut
    THEN ARCHIVE_012M_MAGIC \o LE32(Len(kinds))
         \o SubSeq(Table012m(kinds, 1, 0), 1,
                   Len(Table012m(kinds, 1, 0)) - 2)
    ELSE ARCHIVE_012M_MAGIC \o LE32(Len(kinds))
         \o Table012m(kinds, 1, PayloadStart012m(Len(kinds)))
         \o Payloads(kinds, 1)

KindLists == UNION {[1..n -> EntryKinds] : n \in 0..MaxEntries}

\* extract has found the archive to be Archive_012M and made the Output.
Init012m ==
    /\ \E kinds \in KindLists, cut \in BOOLEAN :
        /\ cut => kinds # <<>>
        /\ file = Archive012m(kinds, cut)
    /\ pos = Len(ARCHIVE_012M_MAGIC)
    /\ p_build \in {"debug", "release"}
    /\ p_pc = "open"
    /\ p_count = 0
    /\ p_entries = <<>>
    /\ p_idx = 0
    /\ p_hdr = [bytes |-> <<>>, pos |-> 0, fail |-> FALSE]
    /\ p_start = 0
    /\ p_limit = NoLimit
    /\ p_result = "none"
    /\ OutFresh(RootName)
    /\ XferOff
    /\ SanOff
    /\ DetOff
    /\ RootOff

Next012m ==
    \/ Open012m /\ UNCHANGED idleInParse
    \/ ReadTable012m /\ UNCHANGED idleInParse
    \/ BeginEntry012m /\ UNCHANGED idleInParse
    \/ TransferLoop /\ UNCHANGED <<fileVars, parseVars, idleInParse>>
    \/ TransferProbe /\ UNCHANGED <<fileVars, parseVars, idleInParse>>
    \/ EndEntry /\ UNCHANGED idleInParse
    \/ ReturnOk /\ UNCHANGED idleInParse

Spec012m == Init012m /\ [][Next012m]_vars

\* C7: when an entry of Archive_012M carries the inner compression marker
\* and its declared length is below 17, the subtraction that gives the
\* compressed length overflows; the claim is that extraction then ends with
\* an error returned to the caller, which main reports as an error, and
\* that no wrapped length is ever used as a read limit nor the condition
\* passed over as a success.
C7_UnderflowIsFatal ==
    p_limit.overflow =>
        /\ p_pc = "done"
        /\ p_result = "err"
        /\ MainOutcome(p_result) = "after_error"

\* The entry at hand while transfer runs or has just returned.
EntryAtHand == p_entries[p_idx + 1]

\* The inner compression marker stands at the offset.
MarkerAt(offset) ==
    IsPrefix(COMPRESS_ZIP_MAGIC,
             Take(file, offset, ExactLimit(Len(COMPRESS_ZIP_MAGIC))))

\* The names of the entries extracted or begun so far, in table order.
NamesBegun ==
    [i \in 1..Len(nodes[<<>>].log) |-> p_entries[i].name]

\* The original names the root node has seen, in the order of the calls.
NamesCreated ==
    [i \in 1..Len(nodes[<<>>].log) |-> nodes[<<>>].log[i].orig]

\* C10: extract_012m reads the whole table before it seeks to a payload or
\* creates a file (so a table cut short gives an error with no file made);
\* it then extracts the entries in table order, each from an explicit seek
\* to the entry's own offset, through the one archive handle, with at most
\* one output file open at a time.
C10_TableThenEntries ==
    /\ (p_pc \in {"entries", "transfer"} \/ t_pc # "idle" \/ written_files > 0)
           => Len(p_entries) = p_count
    /\ (p_pc = "done" /\ Len(p_entries) < p_count)
           => /\ p_result = "err"
              /\ written_files = 0
              /\ DOMAIN files = {}
    /\ Len(nodes[<<>>].log) <= Len(p_entries)
    /\ NamesCreated = NamesBegun
    /\ Len(nodes[<<>>].log) = p_idx + (IF p_pc = "transfer" THEN 1 ELSE 0)
    /\ p_pc = "transfer"
           => IF MarkerAt(EntryAtHand.offset)
              THEN p_start = EntryAtHand.offset + Len(COMPRESS_ZIP_MAGIC) + 4
              ELSE /\ p_start = EntryAtHand.offset
                   /\ t_in.data = Take(file, EntryAtHand.offset,
                                       ExactLimit(EntryAtHand.len))
    /\ Cardinality(open_files) <= 1
    /\ p_pc \in {"open", "table", "entries", "done"} => open_files = {}

\* Two entries, a stored one and a compressed one, are extracted in order.
C10_Witness ==
    /\ p_pc = "done"
    /\ p_result = "ok"
    /\ p_count = 2
    /\ files = (<<RootName, NameOf(1)>> :> <<7, 8, 9>>)
               @@ (<<RootName, NameOf(2)>> :> <<97, 98>>)

(***************************************************************************)
(* SpecPh3: extract_ph3 on archives of up to MaxEntries entries, stored or *)
(* compressed, under a directory or not, the header block stored or        *)
(* compressed, the offsets recorded from the first byte of the file or     *)
(* from the end of the header block, file_count right or one too many.     *)
(***************************************************************************)
\* The bytes read_wchar_str reads for the text.
RECURSIVE WcharUnits(_)
WcharUnits(text) ==
    IF text = <<>> THEN <<>> ELSE LE16(Head(text)) \o WcharUnits(Tail(text))

WcharStr(text) == LE32(Len(text)) \o WcharUnits(text)

Ph3Kinds == {"raw", "zip", "zipbad"}

Ph3Payload(kind) ==
    CASE kind = "raw" -> <<7, 8, 9>>
      [] kind = "zip" -> <<120, 156, 75, 76, 2, 0, 1, 38, 0, 196>>
      [] kind = "zipbad" -> <<1, 2, 3>>

\* The entry of the header for the i-th file.
Ph3Record(dir, i, kind, offset) ==
    LE32(0) \o WcharStr(dir) \o WcharStr(NameOf(i))
    \o LE32(IF kind = "raw" THEN 0 ELSE 1)
    \o LE32(IF kind = "raw" THEN 3 ELSE 2)
    \o LE32(Len(Ph3Payload(kind)))
    \o LE32(offset)

RECURSIVE Ph3Header(_, _, _, _)
Ph3Header(dir, kinds, i, offset) ==
    IF i > Len(kinds) THEN <<>>
    ELSE Ph3Record(dir, i, kinds[i], offset)
         \o Ph3Header(dir, kinds, i + 1, offset + Len(Ph3Payload(kinds[i])))

RECURSIVE Ph3Payloads(_, _)
Ph3Payloads(kinds, i) ==
    IF i > Len(kinds) THEN <<>>
    ELSE Ph3Payload(kinds[i]) \o Ph3Payloads(kinds, i + 1)

\* The header block: the header, or the zlib stream of it.
Ph3Block(packed, header) == IF packed THEN Stored(header) ELSE header

\* The archive around the header block.
Ph3Around(count, packed, block, payloads) ==
    ARCHIVE_PH3_MAGIC \o LE32(count) \o <<IF packed THEN 1 ELSE 0>>
    \o LE32(Len(block)) \o block \o payloads

\* The position the first payload is at: the end of the header block.
Ph3FirstPayload(dir, kinds, packed) ==
    Len(ARCHIVE_PH3_MAGIC) + 4 + 1 + 4
    + Len(Ph3Block(packed, Ph3Header(dir, kinds, 1, 0)))

\* The archive: absolute, the offsets are counted from the first byte of the
\* file, else from the end of the header block; extra is what file_count
\* says beyond the entries there are.
ArchivePh3(dir, kinds, packed, absolute, extra) ==
    Ph3Around(Len(kinds) + extra, packed,
              Ph3Block(packed,
                       Ph3Header(dir, kinds, 1,
                                 IF absolute
                                 THEN Ph3FirstPayload(dir, kinds, packed)
                                 ELSE 0)),
              Ph3Payloads(kinds, 1))

Ph3KindLists == UNION {[1..n -> Ph3Kinds] : n \in 0..MaxEntries}

\* "d": the directory of the entries under a directory.
DirName == <<100>>

\* extract has found the archive to be Archive_PH3 and made the Output.
InitPh3 ==
    /\ \E dir \in {<<>>, DirName}, kinds \in Ph3KindLists,
          packed \in BOOLEAN, absolute \in BOOLEAN, extra \in {0, 1} :
        file = ArchivePh3(dir, kinds, packed, absolute, extra)
    /\ pos = Len(ARCHIVE_PH3_MAGIC)
    /\ p_build \in {"debug", "release"}
    /\ p_pc = "open"
    /\ p_count = 0
    /\ p_entries = <<>>
    /\ p_idx = 0
    /\ p_hdr = [bytes |-> <<>>, pos |-> 0, fail |-> FALSE]
    /\ p_start = 0
    /\ p_limit = NoLimit
    /\ p_result = "none"
    /\ OutFresh(RootName)
    /\ XferOff
    /\ SanOff
    /\ DetOff
    /\ RootOff

NextPh3 ==
    \/ OpenPh3 /\ UNCHANGED idleInParse
    \/ BeginEntryPh3 /\ UNCHANGED idleInParse
    \/ TransferLoop /\ UNCHANGED <<fileVars, parseVars, idleInParse>>
    \/ TransferProbe /\ UNCHANGED <<fileVars, parseVars, idleInParse>>
    \/ EndEntry /\ UNCHANGED idleInParse
    \/ ReturnOk /\ UNCHANGED idleInParse

SpecPh3 == InitPh3 /\ [][NextPh3]_vars

\* The entry of Archive_PH3 at hand while transfer runs.
Ph3AtHand == p_entries[Len(p_entries)]

\* The bytes transfer is given for an entry whose payload is at start.
Ph3Handed(entry, start) ==
    IF entry.is_compressed
    THEN Inflate(Take(file, start, ExactLimit(entry.compressed_len))).data
    ELSE Take(file, start, ExactLimit(entry.uncompressed_len))

====
